---- MODULE Spec2Model ----
(***************************************************************************)
(* A model of the go-genai client: the server-sent-event stream decoder    *)
(* (api_client.go), the realtime session (live.go), the content             *)
(* generation entry points (models.go), and the converters, transformers   *)
(* and document helpers they are built from, each applied to its inputs.   *)
(*                                                                          *)
(* Bytes are one-character strings, byte slices are sequences of them.      *)
(* A Go string that names a resource is the sequence of its "/"-separated   *)
(* segments (strings.Split(s, "/")), so "" is <<"">> and "pub/m" is         *)
(* <<"pub", "m">>.                                                          *)
(***************************************************************************)
EXTENDS Integers, Sequences, FiniteSets, TLC

VARIABLES
    \* ---- the streaming decoder (api_client.go) ----
    input,      \* the frames the server put in the response body
    body,       \* the bytes of the response body (resp.Body)
    rdEnd,      \* bytes the bufio.Scanner has read from the body so far
    start,      \* bytes the Scanner has consumed as tokens or delimiters
    srcErr,     \* the Scanner's sticky read error: "none", "eof", "err"
    needRead,   \* the Scanner offered its buffer to scan and was asked for more
    token,      \* rs.r.Bytes(): the current token
    pc,         \* where iterateResponseStream is
    cur,        \* the element iterateResponseStream is about to yield
    yielded,    \* the elements handed to the consumer, in order
    stopped,    \* the consumer returned false from yield
    closed,     \* rs.rc.Close() has run
    frameNo,    \* the number of non-empty tokens dispatched so far
    \* ---- the client (client.go) ----
    backend,    \* ClientConfig.Backend: "mldev" (Gemini API) or "vertex"
    \* ---- the realtime session (live.go) ----
    lreq,       \* the arguments of Live.Connect
    cpc,        \* where Live.Connect is: "idle", "handshake", "returned"
    connResult, \* what Connect returned: "none", "ok" (a session) or an error
    sock,       \* the websocket of the call: "none", "open", "closed"
    netDown,    \* the connection broke: reads and writes fail
    c2s,        \* frames written by the client, not yet read by the server
    s2c,        \* frames written by the server, not yet read by the client
    sockLog,    \* the calls made on the websocket library, in order
    connectLog, \* the calls among them made by Connect itself
    call,       \* the caller's current or last call on the session
    nCalls,     \* the number of calls the caller made on the session
    \* ---- generate content (models.go) ----
    greq,       \* the arguments of generateContent / generateContentStream
    gpc,        \* where the call is: "idle", "http", "done"
    gLog,       \* the steps of the call so far, in order
    gResult,    \* what the call returned
    gYielded,   \* what the sequence returned by the streaming call yielded
    gBody,      \* resp.Body of the call: "none", "open" or "closed"
    ctxDone,    \* the caller cancelled the context it passed to the call
    \* ---- the converters, transformers and document helpers ----
    fn,         \* the function of the last call: "none" before the first
    fnIn,       \* the arguments of that call
    fnOut       \* what it returned (and the document it wrote into)

streamVars == <<input, body, rdEnd, start, srcErr, needRead, token, pc, cur,
                yielded, stopped, closed, frameNo>>

liveVars == <<lreq, cpc, connResult, sock, netDown, c2s, s2c, sockLog,
              connectLog, call, nCalls>>

genVars == <<greq, gpc, gLog, gResult, gYielded, gBody, ctxDone>>

callVars == <<fn, fnIn, fnOut>>

vars == <<streamVars, backend, liveVars, genVars, callVars>>

(***************************************************************************)
(* Bounds                                                                  *)
(***************************************************************************)
MaxFrames == 2

\* the calls the caller makes on a session
MaxCalls == 2

(***************************************************************************)
(* The parts of the client a behaviour does not exercise stay as they are  *)
(* before their first call.                                                *)
(***************************************************************************)
Backends == {"mldev", "vertex"}

NoRequest == [model |-> <<>>, config |-> {}, hasConfig |-> FALSE]

NoCall == [op |-> "none", arg |-> {}, status |-> "none", msg |-> {}, conv |-> FALSE]

StreamIdle ==
    /\ input = <<>>
    /\ body = <<>>
    /\ rdEnd = 0
    /\ start = 0
    /\ srcErr = "none"
    /\ needRead = FALSE
    /\ token = <<>>
    /\ pc = "idle"
    /\ cur = [frame |-> 0, resp |-> [isNil |-> TRUE, doc |-> {}], err |-> "nil"]
    /\ yielded = <<>>
    /\ stopped = FALSE
    /\ closed = FALSE
    /\ frameNo = 0

LiveIdle ==
    /\ lreq = NoRequest
    /\ cpc = "idle"
    /\ connResult = "none"
    /\ sock = "none"
    /\ netDown = FALSE
    /\ c2s = <<>>
    /\ s2c = <<>>
    /\ sockLog = <<>>
    /\ connectLog = <<>>
    /\ call = NoCall
    /\ nCalls = 0

GenIdle ==
    /\ greq = [mode |-> "none", model |-> <<>>, config |-> {}, hasConfig |-> FALSE]
    /\ gpc = "idle"
    /\ gLog = <<>>
    /\ gResult = "none"
    /\ gYielded = <<>>
    /\ gBody = "none"
    /\ ctxDone = FALSE

CallIdle ==
    /\ fn = "none"
    /\ fnIn = <<>>
    /\ fnOut = <<>>

(***************************************************************************)
(* Byte-slice helpers                                                      *)
(***************************************************************************)
LF == "\n"
CR == "\r"
Colon == ":"

Min(S) == CHOOSE m \in S : \A o \in S : m <= o

\* data[lo:hi] with Go's 0-based, half-open bounds
Slice(data, lo, hi) == SubSeq(data, lo + 1, hi)

\* bytes.Index: the first offset of sep in data, or -1
Index(data, sep) ==
    LET hits == {i \in 0..(Len(data) - Len(sep)) :
                    Slice(data, i, i + Len(sep)) = sep}
    IN  IF hits = {} THEN -1 ELSE Min(hits)

\* bytes.Cut(line, ":"): what is before and after the first colon
Cut(line, sep) ==
    LET i == Index(line, sep)
    IN  IF i >= 0
        THEN [before |-> Slice(line, 0, i),
              after  |-> Slice(line, i + Len(sep), Len(line)),
              found  |-> TRUE]
        ELSE [before |-> line, after |-> <<>>, found |-> FALSE]

RECURSIVE Flatten(_)
Flatten(ss) == IF ss = <<>> THEN <<>> ELSE Head(ss) \o Flatten(Tail(ss))

(***************************************************************************)
(* scan and dropCR, api_client.go:294-324                                  *)
(***************************************************************************)
dropCR(data) ==
    IF Len(data) > 0 /\ data[Len(data)] = CR
    THEN Slice(data, 0, Len(data) - 1)
    ELSE data

NoToken == [advance |-> 0, token |-> <<>>, has |-> FALSE]

\* the variant of scan that forgets the Windows delimiter
scan_NoCRLF(data, atEOF) ==
    IF atEOF /\ Len(data) = 0 THEN NoToken
    ELSE IF Index(data, <<LF, LF>>) >= 0
    THEN LET i == Index(data, <<LF, LF>>)
         IN  [advance |-> i + 2, token |-> dropCR(Slice(data, 0, i)), has |-> TRUE]
    ELSE IF atEOF
    THEN [advance |-> Len(data), token |-> dropCR(data), has |-> TRUE]
    ELSE NoToken

scan(data, atEOF) ==
    IF atEOF /\ Len(data) = 0 THEN NoToken
    ELSE IF Index(data, <<LF, LF>>) >= 0
    THEN LET i == Index(data, <<LF, LF>>)
         IN  [advance |-> i + 2, token |-> dropCR(Slice(data, 0, i)), has |-> TRUE]
    ELSE IF Index(data, <<CR, LF, CR, LF>>) >= 0
    THEN LET i == Index(data, <<CR, LF, CR, LF>>)
         IN  [advance |-> i + 4, token |-> dropCR(Slice(data, 0, i)), has |-> TRUE]
    ELSE IF atEOF
    THEN [advance |-> Len(data), token |-> dropCR(data), has |-> TRUE]
    ELSE NoToken

(***************************************************************************)
(* Decoding one frame                                                      *)
(*                                                                         *)
(* The JSON texts of the model are "{" k "}", k one letter standing for one*)
(* member; the decoded document is the set of its member names.  Any other *)
(* text is malformed.  A document with the member "t" is one the typed     *)
(* materialization (mapToStruct) refuses: a member of the wrong type.      *)
(***************************************************************************)
Members == {"a", "b", "t"}

DataPrefix == <<"d", "a", "t", "a">>

\* json.Unmarshal(data, &respRaw) into a fresh map: on a syntax error the
\* map stays empty
jsonUnmarshal(data) ==
    IF Len(data) = 3 /\ data[1] = "{" /\ data[3] = "}" /\ data[2] \in Members
    THEN [ok |-> TRUE, doc |-> {data[2]}]
    ELSE [ok |-> FALSE, doc |-> {}]

NilResp == [isNil |-> TRUE, doc |-> {}]

\* the responseConverter closure of generateContentStream, models.go:1642-1653
responseConverter(doc) ==
    IF "t" \in doc
    THEN [ok |-> FALSE, resp |-> NilResp]
    ELSE [ok |-> TRUE, resp |-> [isNil |-> FALSE, doc |-> doc]]

Element(f, r, e) == [frame |-> f, resp |-> r, err |-> e]

NoElement == Element(0, NilResp, "nil")

(***************************************************************************)
(* The response bodies                                                     *)
(***************************************************************************)
FrameTexts ==
    { DataPrefix \o <<Colon, "{", "a", "}">>,     \* a good frame
      DataPrefix \o <<Colon, "{", "b", "}">>,     \* another good frame
      DataPrefix \o <<Colon, "{", "a">>,          \* malformed JSON
      DataPrefix \o <<Colon, "{", "t", "}">>,     \* refused by the converter
      <<"e", "v", Colon, "{", "a", "}">>,         \* not a data frame
      <<>> }                                      \* an empty frame

Terminators == { <<LF, LF>>, <<CR, LF, CR, LF>> }

Frames == [text : FrameTexts, term : Terminators]

Inputs == UNION { [1..n -> Frames] : n \in 0..MaxFrames }

BodyOf(in) == Flatten([i \in 1..Len(in) |-> in[i].text \o in[i].term])

(***************************************************************************)
(* The state after deserializeStreamResponse, api_client.go:284-292        *)
(***************************************************************************)
InitStream ==
    /\ input \in Inputs
    /\ body = BodyOf(input)
    /\ rdEnd = 0
    /\ start = 0
    /\ srcErr = "none"
    /\ needRead = FALSE
    /\ token = <<>>
    /\ pc = "scan"
    /\ cur = NoElement
    /\ yielded = <<>>
    /\ stopped = FALSE
    /\ closed = FALSE
    /\ frameNo = 0
    /\ backend = "mldev"
    /\ LiveIdle
    /\ GenIdle
    /\ CallIdle

(***************************************************************************)
(* bufio.Scanner.Scan, called at api_client.go:178.  One turn of its loop  *)
(* offers the buffered bytes to scan, and reads from the body when scan    *)
(* asks for more.                                                          *)
(***************************************************************************)
Buffered == Slice(body, start, rdEnd)

\* the deferred rs.rc.Close(), api_client.go:172-177: it runs however the
\* iterator function returns
deferClose_NotOnEarlyStop(how) == how # "stop"

deferClose(how) == TRUE

\* the iterator function returns
Return(how) ==
    /\ pc' = "done"
    /\ closed' = (closed \/ deferClose(how))

ScannerSplit ==
    /\ pc = "scan"
    /\ ~needRead
    /\ IF rdEnd > start \/ srcErr # "none"
       THEN LET r == scan(Buffered, srcErr # "none")
            IN  IF r.has
                THEN /\ start' = start + r.advance
                     /\ token' = r.token
                     /\ pc' = "dispatch"
                     /\ UNCHANGED <<needRead, closed>>
                ELSE IF srcErr # "none"
                THEN \* Scan returns false: the for loop ends
                     /\ Return("end")
                     /\ UNCHANGED <<start, token, needRead>>
                ELSE /\ needRead' = TRUE
                     /\ UNCHANGED <<start, token, pc, closed>>
       ELSE /\ needRead' = TRUE
            /\ UNCHANGED <<start, token, pc, closed>>
    /\ UNCHANGED <<input, body, rdEnd, srcErr, cur, yielded, stopped, frameNo>>
    /\ UNCHANGED <<backend, liveVars, genVars, callVars>>

\* the body hands over some more bytes, or ends, or fails
ScannerRead ==
    /\ pc = "scan"
    /\ needRead
    /\ \/ \E n \in 1..(Len(body) - rdEnd) :
            /\ rdEnd' = rdEnd + n
            /\ UNCHANGED srcErr
       \/ /\ rdEnd = Len(body)
          /\ srcErr' = "eof"
          /\ UNCHANGED rdEnd
       \/ /\ srcErr' = "err"
          /\ UNCHANGED rdEnd
    /\ needRead' = FALSE
    /\ UNCHANGED <<input, body, start, token, pc, cur, yielded, stopped,
                   closed, frameNo>>
    /\ UNCHANGED <<backend, liveVars, genVars, callVars>>

(***************************************************************************)
(* The body of the for loop, api_client.go:179-214                         *)
(***************************************************************************)
\* lines 179-189 and 209-211: up to the first yield of the frame
Dispatch ==
    /\ pc = "dispatch"
    /\ IF Len(token) = 0
       THEN /\ pc' = "scan"
            /\ UNCHANGED <<cur, frameNo>>
       ELSE LET c == Cut(token, <<Colon>>)
                f == frameNo + 1
            IN  /\ frameNo' = f
                /\ IF c.before = DataPrefix
                   THEN LET j == jsonUnmarshal(c.after)
                            v == responseConverter(j.doc)
                        IN  IF ~j.ok
                            THEN /\ pc' = "yieldJSONErr"
                                 /\ cur' = Element(f, NilResp, "json")
                            ELSE IF ~v.ok
                            THEN /\ pc' = "yieldConvErr"
                                 /\ cur' = Element(f, NilResp, "conv")
                            ELSE /\ pc' = "yieldResp"
                                 /\ cur' = Element(f, v.resp, "nil")
                   ELSE /\ pc' = "yieldChunkErr"
                        /\ cur' = Element(f, NilResp, "chunk")
    /\ UNCHANGED <<input, body, rdEnd, start, srcErr, needRead, token,
                   yielded, stopped, closed>>
    /\ UNCHANGED <<backend, liveVars, genVars, callVars>>

\* yield(cur...) returned cont
Yield(cont) ==
    /\ yielded' = Append(yielded, cur)
    /\ stopped' = ~cont

\* lines 189-193: yield(nil, err) after json.Unmarshal failed; when the
\* consumer goes on, the code falls through to responseConverter(respRaw)
\* with the map json.Unmarshal left
YieldJSONErr ==
    /\ pc = "yieldJSONErr"
    /\ \E cont \in BOOLEAN :
        /\ Yield(cont)
        /\ IF ~cont
           THEN Return("stop") /\ UNCHANGED cur
           ELSE LET v == responseConverter(jsonUnmarshal(Cut(token, <<Colon>>).after).doc)
                IN  /\ closed' = closed
                    /\ IF ~v.ok
                       THEN /\ pc' = "yieldConvErr"
                            /\ cur' = Element(frameNo, NilResp, "conv")
                       ELSE /\ pc' = "yieldResp"
                            /\ cur' = Element(frameNo, v.resp, "nil")
    /\ UNCHANGED <<input, body, rdEnd, start, srcErr, needRead, token, frameNo>>
    /\ UNCHANGED <<backend, liveVars, genVars, callVars>>

\* lines 198-203: yield(nil, err) after responseConverter failed; when the
\* consumer goes on, the code falls through to yield(resp, nil) with the nil
\* resp the converter returned
YieldConvErr ==
    /\ pc = "yieldConvErr"
    /\ \E cont \in BOOLEAN :
        /\ Yield(cont)
        /\ IF ~cont
           THEN Return("stop") /\ UNCHANGED cur
           ELSE /\ closed' = closed
                /\ pc' = "yieldResp"
                /\ cur' = Element(frameNo, NilResp, "nil")
    /\ UNCHANGED <<input, body, rdEnd, start, srcErr, needRead, token, frameNo>>
    /\ UNCHANGED <<backend, liveVars, genVars, callVars>>

\* lines 205-208: yield(resp, nil)
YieldResp ==
    /\ pc = "yieldResp"
    /\ \E cont \in BOOLEAN :
        /\ Yield(cont)
        /\ IF ~cont
           THEN Return("stop")
           ELSE pc' = "scan" /\ closed' = closed
    /\ UNCHANGED <<input, body, rdEnd, start, srcErr, needRead, token, cur, frameNo>>
    /\ UNCHANGED <<backend, liveVars, genVars, callVars>>

\* where the loop goes after the default branch's yield returned cont
afterChunkErr_Terminal(cont) == "return"

afterChunkErr(cont) == IF cont THEN "scan" ELSE "return"

\* lines 209-213: the default branch
YieldChunkErr ==
    /\ pc = "yieldChunkErr"
    /\ \E cont \in BOOLEAN :
        /\ Yield(cont)
        /\ IF afterChunkErr(cont) = "return"
           THEN Return(IF cont THEN "end" ELSE "stop")
           ELSE pc' = "scan" /\ closed' = closed
    /\ UNCHANGED <<input, body, rdEnd, start, srcErr, needRead, token, cur, frameNo>>
    /\ UNCHANGED <<backend, liveVars, genVars, callVars>>

(***************************************************************************)
(* The claims about the streaming decoder                                  *)
(***************************************************************************)
IsPrefix(s, t) == Len(s) <= Len(t) /\ s = SubSeq(t, 1, Len(s))

GoodTexts == { DataPrefix \o <<Colon, "{", "a", "}">>,
               DataPrefix \o <<Colon, "{", "b", "}">> }

UniformTerm(in) == \A i, j \in DOMAIN in : in[i].term = in[j].term

TwoDataFrames(in) ==
    /\ Len(in) = 2
    /\ \A i \in DOMAIN in : in[i].text \in GoodTexts
    /\ UniformTerm(in)

\* what the frames of a body of good frames say, read off the frame texts
ExpectedOf(in) ==
    [i \in DOMAIN in |->
        Element(i, [isNil |-> FALSE, doc |-> {in[i].text[Len(in[i].text) - 1]}], "nil")]

\* the consumer pulled every element and the body was delivered whole
PulledAll == ~stopped /\ srcErr # "err"

\* C1: a body of two data frames, both terminated by "\n\n" or both by
\* "\r\n\r\n", yields the two decoded elements in body order and nothing
\* else, and the iteration has ended with exactly those two.
C1_TwoFramesTwoElements ==
    (TwoDataFrames(input) /\ PulledAll) =>
        /\ IsPrefix(yielded, ExpectedOf(input))
        /\ (pc = "done" => yielded = ExpectedOf(input))

C1_Witness ==
    /\ TwoDataFrames(input)
    /\ input[1].term = <<CR, LF, CR, LF>>
    /\ input[1].text # input[2].text
    /\ PulledAll
    /\ pc = "done"
    /\ Len(yielded) = 2

\* C2: when the iteration has returned, whether the consumer stopped early,
\* the body ran out or a frame produced an error, the body is closed.
C2_ClosedOnEveryExit == pc = "done" => closed

C2_Witness ==
    /\ pc = "done"
    /\ stopped
    /\ closed
    /\ yielded # <<>>
    /\ yielded[Len(yielded)].err # "nil"

ElementsOf(f) == {i \in DOMAIN yielded : yielded[i].frame = f}

\* the frames whose part of the loop body has run to its end
FinishedFrames ==
    IF pc \in {"scan", "dispatch"} \/ (pc = "done" /\ ~stopped)
    THEN 1..frameNo
    ELSE 1..(frameNo - 1)

\* C3: every non-empty frame produces exactly one element, an error element
\* when its payload fails to decode or to convert, also when the consumer
\* keeps pulling after the error.
C3_OneElementPerFrame ==
    /\ \A f \in 1..frameNo : Cardinality(ElementsOf(f)) <= 1
    /\ \A f \in FinishedFrames : Cardinality(ElementsOf(f)) = 1

NonEmptyFrames(in) == {i \in DOMAIN in : in[i].text # <<>>}

C26_CutsAtEarliestDelimiter ==
    (\A k \in DOMAIN input : input[k].text # <<>>) =>
        /\ Index(token, <<LF, LF>>) < 0
        /\ Index(token, <<CR, LF, CR, LF>>) < 0
        /\ (pc = "dispatch" /\ srcErr # "err") =>
                \E k \in DOMAIN input : token = input[k].text

\* C21: when reading the body fails part-way, the consumer that is still
\* pulling receives an error element carrying the read failure; the
\* sequence does not end as if the stream had completed.
C21_ReadErrorIsYielded ==
    (pc = "done" /\ srcErr = "err" /\ ~stopped) =>
        (yielded # <<>> /\ yielded[Len(yielded)].err = "read")

NextStream ==
    \/ ScannerSplit
    \/ ScannerRead
    \/ Dispatch
    \/ YieldJSONErr
    \/ YieldConvErr
    \/ YieldResp
    \/ YieldChunkErr

SpecStream == InitStream /\ [][NextStream]_vars

(***************************************************************************)
(* Model names, transformer.go:47-91.  A name is the sequence of its       *)
(* "/"-separated segments.                                                 *)
(***************************************************************************)
EmptyName == <<"">>

\* strings.HasPrefix(name, p + "/")
HasPrefix(name, p) == Len(name) >= 2 /\ name[1] = p

\* strings.Contains(name, "/")
ContainsSlash(name) == Len(name) >= 2

Project == "p"
Location == "l"

\* the variant of tModel that lets the empty name through
tModel_AcceptsEmpty(b, model) ==
    IF b = "vertex"
    THEN IF HasPrefix(model, "projects") \/ HasPrefix(model, "models")
                \/ HasPrefix(model, "publishers")
         THEN [ok |-> TRUE, name |-> model]
         ELSE IF ContainsSlash(model)
         THEN [ok |-> TRUE, name |-> <<"publishers", model[1], "models">> \o Tail(model)]
         ELSE [ok |-> TRUE, name |-> <<"publishers", "google", "models">> \o model]
    ELSE IF HasPrefix(model, "models") \/ HasPrefix(model, "tunedModels")
         THEN [ok |-> TRUE, name |-> model]
         ELSE [ok |-> TRUE, name |-> <<"models">> \o model]

tModel(b, model) ==
    IF model = EmptyName
    THEN [ok |-> FALSE, name |-> EmptyName]
    ELSE IF b = "vertex"
    THEN IF HasPrefix(model, "projects") \/ HasPrefix(model, "models")
                \/ HasPrefix(model, "publishers")
         THEN [ok |-> TRUE, name |-> model]
         ELSE IF ContainsSlash(model)
         THEN [ok |-> TRUE, name |-> <<"publishers", model[1], "models">> \o Tail(model)]
         ELSE [ok |-> TRUE, name |-> <<"publishers", "google", "models">> \o model]
    ELSE IF HasPrefix(model, "models") \/ HasPrefix(model, "tunedModels")
         THEN [ok |-> TRUE, name |-> model]
         ELSE [ok |-> TRUE, name |-> <<"models">> \o model]

\* the variant that leaves a publishers/ name without its project and location
tModelFullName_NoProject(b, model) ==
    LET r == tModel(b, model)
    IN  IF ~r.ok THEN r
        ELSE IF HasPrefix(r.name, "models") /\ b = "vertex"
        THEN [ok |-> TRUE,
              name |-> <<"projects", Project, "locations", Location,
                         "publishers", "google">> \o r.name]
        ELSE r

tModelFullName(b, model) ==
    LET r == tModel(b, model)
    IN  IF ~r.ok THEN r
        ELSE IF HasPrefix(r.name, "publishers") /\ b = "vertex"
        THEN [ok |-> TRUE,
              name |-> <<"projects", Project, "locations", Location>> \o r.name]
        ELSE IF HasPrefix(r.name, "models") /\ b = "vertex"
        THEN [ok |-> TRUE,
              name |-> <<"projects", Project, "locations", Location,
                         "publishers", "google">> \o r.name]
        ELSE r

ModelNames == { EmptyName, <<"m">>, <<"pub", "m">> }

(***************************************************************************)
(* Request documents.  A config is the set of the fields it carries a      *)
(* non-zero value for, each named by its path; encoding/json drops the     *)
(* zero-valued ones (omitempty) when deepMarshal builds the document.      *)
(***************************************************************************)
\* the fields a to-wire converter refuses, by backend
RejectedFields(b) ==
    IF b = "mldev"
    THEN { "tools.retrieval",                       \* models.go:564-566
           "systemInstruction.parts.videoMetadata", \* models.go:25-27
           "responseLogprobs",                      \* models.go:840-842
           "logprobs" }                             \* models.go:844-846
    ELSE { "systemInstruction.parts.thought",       \* models.go:80-82
           "toolResponse.functionResponses.id" }    \* live.go:477-479

\* the first error of a converter over the fields of a document
convert(b, fields) ==
    IF fields \cap RejectedFields(b) # {}
    THEN [ok |-> FALSE, fields |-> {}]
    ELSE [ok |-> TRUE, fields |-> fields]

LiveConfigFields ==
    { "generationConfig", "tools.googleSearch", "tools.retrieval",
      "systemInstruction.parts.videoMetadata", "systemInstruction.parts.thought" }

\* Connect's config argument: nil, or a config with at most one field set
LiveConfigs ==
    {[hasConfig |-> FALSE, config |-> {}]}
        \cup {[hasConfig |-> TRUE, config |-> {}]}
        \cup {[hasConfig |-> TRUE, config |-> {f}] : f \in LiveConfigFields}

(***************************************************************************)
(* Frames on the websocket                                                 *)
(***************************************************************************)
ClientFrame(k, m, fs) == [kind |-> k, model |-> m, fields |-> fs]

\* a server frame: whether it is JSON at all, and its non-null members
ServerFrame(v, d) == [valid |-> v, doc |-> d]

\* the test server of live_test.go:52-77,153-190: one reply per client frame
RepliesTo(frame) ==
    IF frame.kind = "setup"
    THEN { ServerFrame(TRUE, {"setupComplete"}),
           ServerFrame(TRUE, {"error"}),
           ServerFrame(FALSE, {}) }
    ELSE { ServerFrame(TRUE, {"serverContent"}),
           ServerFrame(TRUE, {"error"}),
           ServerFrame(TRUE, {"error", "serverContent"}) }

ServerMembers == {"setupComplete", "serverContent", "toolCall", "toolCallCancellation"}

\* the variant without the test of the error member
decodeServerMessage_ConvertsErrorDoc(frame) ==
    IF ~frame.valid THEN [ok |-> FALSE, msg |-> {}, conv |-> FALSE]
    ELSE [ok |-> TRUE, msg |-> frame.doc \cap ServerMembers, conv |-> TRUE]

\* Session.Receive after ReadMessage returned frame, live.go:160-185; conv
\* tells whether the server-message converter was run
decodeServerMessage(frame) ==
    IF ~frame.valid THEN [ok |-> FALSE, msg |-> {}, conv |-> FALSE]
    ELSE IF "error" \in frame.doc THEN [ok |-> FALSE, msg |-> {}, conv |-> FALSE]
    ELSE [ok |-> TRUE, msg |-> frame.doc \cap ServerMembers, conv |-> TRUE]

\* s.conn.ReadMessage() can return: a frame is there, or the connection is gone
CanRead == s2c # <<>> \/ netDown \/ sock = "closed"

\* Session.Receive, live.go:155-186
Receive ==
    IF sock # "closed" /\ s2c # <<>>
    THEN decodeServerMessage(Head(s2c))
    ELSE [ok |-> FALSE, msg |-> {}, conv |-> FALSE]

\* the frames left for later reads once ReadMessage has returned
AfterRead == IF sock # "closed" /\ s2c # <<>> THEN Tail(s2c) ELSE s2c

(***************************************************************************)
(* Live.Connect, live.go:43-121                                            *)
(***************************************************************************)
\* lines 91-115: the frames Connect writes once the socket is open
connectFrames_NoneWithoutConfig(b, r) ==
    LET n == tModelFullName(b, r.model)
        c == convert(b, r.config)
    IN  IF ~n.ok THEN [ok |-> FALSE, frames |-> <<>>]
        ELSE IF ~c.ok THEN [ok |-> FALSE, frames |-> <<>>]
        ELSE [ok |-> TRUE,
              frames |-> IF r.hasConfig
                         THEN <<ClientFrame("setup", n.name, c.fields)>>
                         ELSE <<>>]

connectFrames(b, r) ==
    LET n == tModelFullName(b, r.model)
        c == convert(b, r.config)
    IN  IF ~n.ok THEN [ok |-> FALSE, frames |-> <<>>]
        ELSE IF ~c.ok THEN [ok |-> FALSE, frames |-> <<>>]
        ELSE [ok |-> TRUE, frames |-> <<ClientFrame("setup", n.name, c.fields)>>]

Writes(frames) == [i \in 1..Len(frames) |-> "write"]

\* lines 43-115: up to the blocking s.Receive()
ConnectStart ==
    /\ cpc = "idle"
    /\ \E m \in ModelNames, c \in LiveConfigs, urlOK, tokenOK, dialOK, writeOK \in BOOLEAN :
        LET r == [model |-> m, config |-> c.config, hasConfig |-> c.hasConfig]
            f == connectFrames(backend, r)
        IN  /\ lreq' = r
            /\ IF ~urlOK
               THEN /\ cpc' = "returned" /\ connResult' = "errBaseURL"
                    /\ UNCHANGED <<sock, netDown, c2s, sockLog, connectLog>>
               ELSE IF backend = "vertex" /\ ~tokenOK
               THEN /\ cpc' = "returned" /\ connResult' = "errToken"
                    /\ UNCHANGED <<sock, netDown, c2s, sockLog, connectLog>>
               ELSE IF ~dialOK
               THEN /\ cpc' = "returned" /\ connResult' = "errDial"
                    /\ sockLog' = Append(sockLog, "dial")
                    /\ connectLog' = Append(connectLog, "dial")
                    /\ UNCHANGED <<sock, netDown, c2s>>
               ELSE IF ~f.ok
               THEN /\ cpc' = "returned" /\ connResult' = "errRequest"
                    /\ sock' = "open"
                    /\ sockLog' = Append(sockLog, "dial")
                    /\ connectLog' = Append(connectLog, "dial")
                    /\ UNCHANGED <<netDown, c2s>>
               ELSE /\ cpc' = "handshake" /\ connResult' = "none"
                    /\ sock' = "open"
                    /\ sockLog' = Append(sockLog, "dial") \o Writes(f.frames)
                    /\ connectLog' = Append(connectLog, "dial") \o Writes(f.frames)
                    \* the error of WriteMessage is dropped (line 115)
                    /\ netDown' = ~writeOK
                    /\ c2s' = IF writeOK THEN c2s \o f.frames ELSE c2s
    /\ UNCHANGED <<s2c, call, nCalls>>
    /\ UNCHANGED <<streamVars, backend, genVars, callVars>>

\* lines 116-120: s.Receive() returns
ConnectRecv ==
    /\ cpc = "handshake"
    /\ CanRead
    /\ sockLog' = Append(sockLog, "read")
    /\ connectLog' = Append(connectLog, "read")
    /\ s2c' = AfterRead
    /\ cpc' = "returned"
    /\ connResult' = IF Receive.ok THEN "ok" ELSE "errReceive"
    /\ UNCHANGED <<lreq, sock, netDown, c2s, call, nCalls>>
    /\ UNCHANGED <<streamVars, backend, genVars, callVars>>

(***************************************************************************)
(* The server and the network                                              *)
(***************************************************************************)
ServerReply ==
    /\ sock = "open"
    /\ ~netDown
    /\ c2s # <<>>
    /\ \E reply \in RepliesTo(Head(c2s)) : s2c' = Append(s2c, reply)
    /\ c2s' = Tail(c2s)
    /\ UNCHANGED <<lreq, cpc, connResult, sock, netDown, sockLog, connectLog,
                   call, nCalls>>
    /\ UNCHANGED <<streamVars, backend, genVars, callVars>>

NetDrop ==
    /\ sock = "open"
    /\ ~netDown
    /\ netDown' = TRUE
    /\ UNCHANGED <<lreq, cpc, connResult, sock, c2s, s2c, sockLog, connectLog,
                   call, nCalls>>
    /\ UNCHANGED <<streamVars, backend, genVars, callVars>>


(***************************************************************************)
(* The caller's use of the session, live.go:123-191.  A LiveClientMessage  *)
(* is the set of its non-nil payloads and of the refused fields they carry.*)
(***************************************************************************)
Messages ==
    { {"setup"}, {"setup", "clientContent"}, {"clientContent"}, {"realtimeInput"},
      {"toolResponse"}, {"toolResponse", "toolResponse.functionResponses.id"} }

\* line 126: input.Setup != nil
sendGuard_Missing(msg) == FALSE

sendGuard(msg) == "setup" \in msg

\* Session.Send, live.go:125-151
Send ==
    /\ connResult = "ok"
    /\ call.status # "running"
    /\ nCalls < MaxCalls
    /\ nCalls' = nCalls + 1
    /\ \E msg \in Messages :
        LET c == convert(backend, msg)
            frame == ClientFrame(IF "setup" \in msg THEN "setup" ELSE "message",
                                 <<>>, c.fields)
        IN  IF sendGuard(msg)
            THEN /\ call' = [op |-> "send", arg |-> msg, status |-> "err", msg |-> {}, conv |-> FALSE]
                 /\ UNCHANGED <<c2s, sockLog>>
            ELSE IF ~c.ok
            THEN /\ call' = [op |-> "send", arg |-> msg, status |-> "err", msg |-> {}, conv |-> FALSE]
                 /\ UNCHANGED <<c2s, sockLog>>
            ELSE /\ sockLog' = Append(sockLog, "write")
                 /\ IF sock = "open" /\ ~netDown
                    THEN /\ c2s' = Append(c2s, frame)
                         /\ call' = [op |-> "send", arg |-> msg, status |-> "ok", msg |-> {}, conv |-> FALSE]
                    ELSE /\ c2s' = c2s
                         /\ call' = [op |-> "send", arg |-> msg, status |-> "err", msg |-> {}, conv |-> FALSE]
    /\ UNCHANGED <<lreq, cpc, connResult, sock, netDown, s2c, connectLog>>
    /\ UNCHANGED <<streamVars, backend, genVars, callVars>>

\* Session.Receive is called and blocks in ReadMessage, live.go:155-156
ReceiveCall ==
    /\ connResult = "ok"
    /\ call.status # "running"
    /\ nCalls < MaxCalls
    /\ nCalls' = nCalls + 1
    /\ call' = [op |-> "receive", arg |-> {}, status |-> "running", msg |-> {}, conv |-> FALSE]
    /\ UNCHANGED <<lreq, cpc, connResult, sock, netDown, c2s, s2c, sockLog, connectLog>>
    /\ UNCHANGED <<streamVars, backend, genVars, callVars>>

\* ReadMessage returns and Session.Receive finishes, live.go:156-185
ReceiveReturn ==
    /\ call.op = "receive"
    /\ call.status = "running"
    /\ CanRead
    /\ sockLog' = Append(sockLog, "read")
    /\ s2c' = AfterRead
    /\ call' = [op |-> "receive",
                \* the document of the frame ReadMessage returned
                arg |-> IF sock # "closed" /\ s2c # <<>> /\ Head(s2c).valid
                        THEN Head(s2c).doc ELSE {},
                status |-> IF Receive.ok THEN "ok" ELSE "err",
                msg |-> Receive.msg, conv |-> Receive.conv]
    /\ UNCHANGED <<lreq, cpc, connResult, sock, netDown, c2s, connectLog, nCalls>>
    /\ UNCHANGED <<streamVars, backend, genVars, callVars>>

\* Session.Close, live.go:189-191
Close ==
    /\ connResult = "ok"
    /\ call.status # "running"
    /\ nCalls < MaxCalls
    /\ nCalls' = nCalls + 1
    /\ sock' = "closed"
    /\ sockLog' = Append(sockLog, "close")
    /\ call' = [op |-> "close", arg |-> {}, status |-> "ok", msg |-> {}, conv |-> FALSE]
    /\ UNCHANGED <<lreq, cpc, connResult, netDown, c2s, s2c, connectLog>>
    /\ UNCHANGED <<streamVars, backend, genVars, callVars>>

(***************************************************************************)
(* The claims about the realtime session                                   *)
(***************************************************************************)
ConnectFailed == cpc = "returned" /\ connResult # "ok"

C6_NoSocketLeftOpenOnError == ConnectFailed => sock # "open"

\* C7: a Send of a message whose Setup is set returns an error, writes no
\* frame and leaves the connection as it was.
C7_SendSetupRejected ==
    [][(nCalls' = nCalls + 1 /\ call'.op = "send" /\ "setup" \in call'.arg) =>
            /\ call'.status = "err"
            /\ UNCHANGED <<sock, netDown, c2s, s2c, sockLog, connectLog,
                           cpc, connResult>>]_vars

C7_Witness ==
    /\ call.op = "send"
    /\ "setup" \in call.arg
    /\ call.status = "err"
    /\ sock = "open"
    /\ ~netDown

\* C8: after a successful Connect the server's setup reply is still there
\* for the caller: the first Receive returns a message with SetupComplete
\* set, and does not wait for a frame that no client frame will bring.
C8_SetupReplyLeftForCaller ==
    /\ (connResult = "ok" /\ nCalls = 0 /\ ~netDown) =>
            \E i \in DOMAIN s2c : "setupComplete" \in s2c[i].doc
    /\ (nCalls = 1 /\ call.op = "receive" /\ call.status = "ok") =>
            "setupComplete" \in call.msg
    /\ ~(nCalls = 1 /\ call.op = "receive" /\ call.status = "running"
            /\ ~CanRead /\ c2s = <<>>)

\* a request the converters refuse: no model name, or a retrieval tool on
\* the Gemini API backend
InvalidLiveRequest(b, r) ==
    \/ r.model = EmptyName
    \/ b = "mldev" /\ "tools.retrieval" \in r.config

\* C10: Connect does not dial for an invalid request.
C10_InvalidRequestNoDial ==
    (cpc # "idle" /\ InvalidLiveRequest(backend, lreq)) =>
        \A i \in DOMAIN sockLog : sockLog[i] # "dial"

\* C23: a call of Session.Receive reads exactly one frame; when the
\* document of the frame has a non-null top-level error member the call
\* returns an error and no message, and the server-message converter is
\* not run on the document.
C23_ReceiveOneFrameErrorMember ==
    [][(call.op = "receive" /\ call.status = "running" /\ call'.status # "running") =>
            /\ sockLog' = Append(sockLog, "read")
            /\ IF sock # "closed" /\ s2c # <<>>
               THEN /\ s2c' = Tail(s2c)
                    /\ "error" \in Head(s2c).doc =>
                            (call'.status = "err" /\ call'.msg = {} /\ ~call'.conv)
               ELSE s2c' = s2c /\ call'.status = "err"]_vars

C23_Witness ==
    /\ call.op = "receive" /\ call.status = "err"
    /\ call.arg = {"error", "serverContent"}
    /\ call.msg = {} /\ ~call.conv

InitLive ==
    /\ backend \in Backends
    /\ LiveIdle
    /\ StreamIdle
    /\ GenIdle
    /\ CallIdle

NextLive ==
    \/ ConnectStart
    \/ ConnectRecv
    \/ ServerReply
    \/ NetDrop
    \/ Send
    \/ ReceiveCall
    \/ ReceiveReturn
    \/ Close

SpecLive == InitLive /\ [][NextLive]_vars

(***************************************************************************)
(* generateContent and generateContentStream, models.go:1560-1654          *)
(***************************************************************************)
GenConfigFields ==
    { "temperature", "tools.googleSearch", "tools.retrieval", "responseLogprobs",
      "systemInstruction.parts.videoMetadata", "systemInstruction.parts.thought" }

\* the config argument: nil, or a config with at most one field set
GenConfigs ==
    {[hasConfig |-> FALSE, config |-> {}]}
        \cup {[hasConfig |-> TRUE, config |-> {}]}
        \cup {[hasConfig |-> TRUE, config |-> {f}] : f \in GenConfigFields}

\* generateContentParametersToMldev / ...ToVertex, models.go:1134-1214
generateContentParameters(b, r) ==
    LET n == tModel(b, r.model)
        c == convert(b, r.config)
    IN  IF ~n.ok THEN [ok |-> FALSE, url |-> EmptyName, fields |-> {}]
        ELSE IF ~c.ok THEN [ok |-> FALSE, url |-> EmptyName, fields |-> {}]
        ELSE [ok |-> TRUE, url |-> n.name, fields |-> c.fields]

\* how a call that failed before or at the HTTP exchange ends: the unary
\* call returns the error, the streaming call returns the sequence of
\* yieldErrorAndEndIterator (models.go:1613-1619)
GenFail(mode, err) ==
    /\ gResult' = err
    /\ gpc' = IF mode = "stream" THEN "errIter" ELSE "done"

\* lines 1560-1588 and 1604-1638, with buildRequest and doRequest
\* (api_client.go:100-146): up to the HTTP request being sent
GenStart ==
    /\ gpc = "idle"
    /\ \E mode \in {"unary", "stream"}, m \in ModelNames, c \in GenConfigs,
          urlOK \in BOOLEAN :
        LET r == [mode |-> mode, model |-> m, config |-> c.config,
                  hasConfig |-> c.hasConfig]
            w == generateContentParameters(backend, r)
        IN  /\ greq' = r
            /\ IF ~w.ok
               THEN /\ gLog' = gLog \o <<"toConverter">>
                    /\ GenFail(mode, "errRequest")
               ELSE IF ~urlOK
               THEN \* url.Parse refuses the path in createAPIURL
                    /\ gLog' = gLog \o <<"toConverter", "formatMap", "buildRequest">>
                    /\ GenFail(mode, "errURL")
               ELSE /\ gLog' = gLog \o <<"toConverter", "formatMap", "buildRequest",
                                        "httpDo">>
                    /\ gpc' = "http"
                    /\ UNCHANGED gResult
    /\ UNCHANGED <<gYielded, gBody, ctxDone>>
    /\ UNCHANGED <<streamVars, backend, liveVars, callVars>>

HTTPOutcomes ==
    {"transportErr", "status4xx", "status5xx", "statusNoErrorInfo",
     "ok", "okBadJSON", "okBadType"}

\* resp.Body when the exchange is over: sendRequest defers resp.Body.Close()
\* (api_client.go:63); sendStreamRequest leaves the body to the iterator
\* (api_client.go:48-49) and deserializeStreamResponse returns
\* newAPIError(resp) for a non-2xx status without closing it
\* (api_client.go:285-287)
bodyAfter(mode, o) ==
    IF o = "transportErr" THEN "none"
    ELSE IF mode = "unary" THEN "closed"
    ELSE "open"

\* the HTTP exchange ends: api_client.go:141-163 and 284-292, then
\* models.go:1589-1600 or 1639-1653.  The request is built by
\* http.NewRequest (api_client.go:110) and sent by client.Do(req)
\* (api_client.go:141): it carries context.Background(), so the outcomes
\* are the same whether or not the caller's context is cancelled.
GenResponse ==
    /\ gpc = "http"
    /\ \E o \in HTTPOutcomes :
        /\ gBody' = bodyAfter(greq.mode, o)
        /\ IF o = "transportErr"
           THEN /\ gLog' = Append(gLog, "httpErr")
                /\ GenFail(greq.mode, "errTransport")
           ELSE IF o \in {"status4xx", "status5xx"}
           THEN /\ gLog' = Append(gLog, "httpStatus")
                /\ GenFail(greq.mode,
                           IF o = "status4xx" THEN "ClientError" ELSE "ServerError")
           ELSE IF o = "statusNoErrorInfo"
           THEN \* a non-2xx status whose JSON body has no error member:
                \* newAPIError dereferences the nil ErrorInfo
                \* (api_client.go:241-244) and the goroutine panics
                /\ gLog' = Append(gLog, "httpStatus")
                /\ gResult' = "panic"
                /\ gpc' = "done"
           ELSE IF greq.mode = "stream"
           THEN \* the body is left to iterateResponseStream
                /\ gLog' = Append(gLog, "http2xx")
                /\ gResult' = "stream"
                /\ gpc' = "done"
           ELSE IF o = "okBadJSON"
           THEN /\ gLog' = Append(gLog, "http2xx")
                /\ GenFail(greq.mode, "errDecode")
           ELSE IF o = "okBadType"
           THEN /\ gLog' = gLog \o <<"http2xx", "fromConverter", "mapToStruct">>
                /\ GenFail(greq.mode, "errDecode")
           ELSE /\ gLog' = gLog \o <<"http2xx", "fromConverter", "mapToStruct">>
                /\ gResult' = "response"
                /\ gpc' = "done"
    /\ UNCHANGED <<greq, gYielded, ctxDone>>
    /\ UNCHANGED <<streamVars, backend, liveVars, callVars>>

\* the consumer ranges over the sequence of yieldErrorAndEndIterator
ErrIterPull ==
    /\ gpc = "errIter"
    /\ \E cont \in BOOLEAN :
        /\ gYielded' = Append(gYielded, [resp |-> "nil", err |-> gResult, cont |-> cont])
        /\ gpc' = "done"
    /\ UNCHANGED <<greq, gLog, gResult, gBody, ctxDone>>
    /\ UNCHANGED <<streamVars, backend, liveVars, callVars>>

\* the caller cancels the context of a call that has not returned
CtxCancel ==
    /\ gpc \in {"idle", "http"}
    /\ ~ctxDone
    /\ ctxDone' = TRUE
    /\ UNCHANGED <<greq, gpc, gLog, gResult, gYielded, gBody>>
    /\ UNCHANGED <<streamVars, backend, liveVars, callVars>>

(***************************************************************************)
(* The claims about generate content                                       *)
(***************************************************************************)
Occurs(log, e) == \E i \in DOMAIN log : log[i] = e

\* a request the converters refuse: no model name, or a field the active
\* backend does not support
InvalidGenRequest(b, r) ==
    \/ r.model = EmptyName
    \/ b = "mldev" /\ r.config \cap {"tools.retrieval", "responseLogprobs",
                                   "systemInstruction.parts.videoMetadata"} # {}
    \/ b = "vertex" /\ "systemInstruction.parts.thought" \in r.config

\* C9: the request conversion and the URL rendering are over before the
\* HTTP request is sent; no HTTP request is sent for a request that fails
\* conversion; the unary call runs the response converter only after an
\* HTTP exchange that succeeded.
C9_ConvertBeforeHTTP ==
    /\ \A i \in DOMAIN gLog :
          gLog[i] = "httpDo" =>
              SubSeq(gLog, 1, i - 1) = <<"toConverter", "formatMap", "buildRequest">>
    /\ (gpc # "idle" /\ InvalidGenRequest(backend, greq)) =>
          (~Occurs(gLog, "httpDo") /\ gResult = "errRequest")
    /\ \A i \in DOMAIN gLog :
          gLog[i] = "fromConverter" =>
              (greq.mode = "unary" /\ i > 1 /\ gLog[i - 1] = "http2xx")

C9_Witness ==
    /\ gpc = "done"
    /\ greq.mode = "unary"
    /\ greq.model = EmptyName
    /\ gResult = "errRequest"

\* C20: once the caller's context is cancelled, the blocking operation an
\* in-progress call is in (sending the request, reading the response) ends
\* with an error; the call does not run to completion.
C20_CancelFailsTheCall ==
    [][(gpc = "http" /\ ctxDone /\ gpc' # "http") =>
            gResult' \notin {"response", "stream"}]_vars

GenErrors ==
    {"errRequest", "errURL", "errTransport", "ClientError", "ServerError"}

\* C25: when the request conversion, the URL rendering or the opening of
\* the stream fails in generateContentStream, the sequence yields exactly
\* one element, (nil, that error), and ends: never a response element,
\* never a second error.
C25_OneErrorElement ==
    (greq.mode = "stream" /\ gpc = "done" /\ gResult # "stream") =>
        /\ gResult \in GenErrors
        /\ Len(gYielded) = 1
        /\ gYielded[1].resp = "nil"
        /\ gYielded[1].err = gResult

\* C28: on a non-2xx response to a streaming request the body is closed
\* before the error is returned, so every body sendStreamRequest obtains is
\* closed, by the error path or by the iterator.
C28_ErrorPathClosesBody ==
    (greq.mode = "stream" /\ gResult \in {"ClientError", "ServerError"}) =>
        gBody = "closed"

InitGen ==
    /\ backend \in Backends
    /\ GenIdle
    /\ StreamIdle
    /\ LiveIdle
    /\ CallIdle

NextGen ==
    \/ GenStart
    \/ GenResponse
    \/ ErrIterPull
    \/ CtxCancel

SpecGen == InitGen /\ [][NextGen]_vars

(***************************************************************************)
(* Path-addressed documents (map[string]any).  A document is a function    *)
(* from the paths of its keys to values; the value "node" is a nested      *)
(* mapping, whose keys are the paths below it.  Values are named by what   *)
(* reflect sees of them.                                                   *)
(***************************************************************************)
\* a nil interface value: an absent key, or JSON null
Nil == "nil"

\* the values reflect.Value.IsZero reports as zero
ZeroValues == {"false", "0", "emptyString", "nilSlice", "nilMap"}

\* non-nil empty collections: IsZero is IsNil for maps and slices
EmptyCollections == {"emptySlice", "emptyMap"}

NonEmptyValues == {"true", "1", "str", "slice"}

Values == {Nil} \cup ZeroValues \cup EmptyCollections \cup NonEmptyValues

\* what a JSON document can carry for a key after deepMarshal
JSONValues == {Nil, "false", "0", "emptyString", "emptySlice", "emptyMap",
               "true", "1", "str", "slice"}

IsZero(value) == value \in ZeroValues

EmptyDoc == << >>

Keys == {"a", "b"}

\* strict extension of a path
Below(p, q) == Len(q) > Len(p) /\ SubSeq(q, 1, Len(p)) = p

\* what a map holds once value is assigned to a key of it
Stored(value) == IF value = "emptyMap" THEN "node" ELSE value

\* data with v stored at path p, replacing what was stored there
Assign(data, p, v) ==
    [q \in {r \in DOMAIN data : ~Below(p, r)} \cup {p} |->
        IF q = p THEN v ELSE data[q]]

getValueByPath(data, keys) ==
    IF keys \in DOMAIN data THEN data[keys] ELSE Nil

\* the loop over keys[0 .. len-2]: the maps on the way are created
RECURSIVE descend(_, _, _)
descend(data, keys, i) ==
    IF i >= Len(keys) THEN data
    ELSE LET p == SubSeq(keys, 1, i)
         IN  descend(IF getValueByPath(data, p) = "node" THEN data
                     ELSE Assign(data, p, "node"),
                     keys, i + 1)

\* the variant that takes empty collections for zero values
setValueByPath_EmptyIsZero(data, keys, value) ==
    IF value = Nil THEN data
    ELSE LET d == descend(data, keys, 1)
         IN  IF IsZero(value) \/ value \in EmptyCollections THEN d
             ELSE Assign(d, keys, Stored(value))

setValueByPath(data, keys, value) ==
    IF value = Nil THEN data
    ELSE LET d == descend(data, keys, 1)
         IN  IF ~IsZero(value) THEN Assign(d, keys, Stored(value)) ELSE d

\* setValueByPath with a converted document (a non-nil map) as the value
setDocByPath(data, keys, sub) ==
    LET d == Assign(descend(data, keys, 1), keys, "node")
    IN  [q \in DOMAIN d \cup {keys \o r : r \in DOMAIN sub} |->
            IF q \in DOMAIN d THEN d[q] ELSE sub[SubSeq(q, Len(keys) + 1, Len(q))]]

(***************************************************************************)
(* The to-wire converters of one entity: the fields they refuse and the    *)
(* fields they copy under the same key.                                    *)
(***************************************************************************)
Converters == {"partToMldev", "partToVertex", "schemaToMldev",
               "safetySettingToMldev", "functionDeclarationToMldev",
               "toolToMldev", "generateContentConfigToMldev",
               "functionResponseToVertex", "partFromMldev", "partFromVertex"}

\* the fields tested with `getValueByPath(fromObject, ...) != nil` before an error
RejectedBy(conv) ==
    CASE conv = "partToMldev" -> {"videoMetadata"}
      [] conv = "partToVertex" -> {"thought"}
      [] conv = "schemaToMldev" ->
            {"minItems", "example", "propertyOrdering", "pattern", "minimum",
             "default", "anyOf", "maxLength", "title", "minLength",
             "minProperties", "maxItems", "maximum", "nullable", "maxProperties"}
      [] conv = "safetySettingToMldev" -> {"method"}
      [] conv = "functionDeclarationToMldev" -> {"response"}
      [] conv = "toolToMldev" -> {"retrieval"}
      [] conv = "generateContentConfigToMldev" ->
            {"responseLogprobs", "logprobs", "routingConfig", "mediaResolution"}
      [] conv = "functionResponseToVertex" -> {"id"}
      [] conv \in {"partFromMldev", "partFromVertex"} -> {}

\* fields copied with `if from != nil { setValueByPath(toObject, key, from) }`
CopiedBy(conv) ==
    CASE conv = "partToMldev" -> {"thought", "text"}
      [] conv = "partToVertex" -> {"videoMetadata", "text"}
      [] conv = "schemaToMldev" -> {"type", "description", "format"}
      [] conv = "safetySettingToMldev" -> {"category", "threshold"}
      [] conv = "functionDeclarationToMldev" -> {"description", "name"}
      [] conv = "toolToMldev" -> {"codeExecution"}
      [] conv = "generateContentConfigToMldev" ->
            {"temperature", "topP", "topK", "candidateCount", "maxOutputTokens",
             "seed", "responseMimeType"}
      [] conv = "functionResponseToVertex" -> {"name", "response"}
      [] conv = "partFromMldev" -> {"thought", "text"}
      [] conv = "partFromVertex" -> {"videoMetadata", "text"}

FieldsOf(conv) == RejectedBy(conv) \cup CopiedBy(conv)

Failed == [ok |-> FALSE, doc |-> EmptyDoc]

RECURSIVE copyFields(_, _, _)
copyFields(from, to, fields) ==
    IF fields = {} THEN to
    ELSE LET f == CHOOSE g \in fields : TRUE
         IN  copyFields(from,
                        setValueByPath(to, <<f>>, getValueByPath(from, <<f>>)),
                        fields \ {f})

rejects(conv, from) ==
    \E f \in RejectedBy(conv) : getValueByPath(from, <<f>>) # Nil

convertTo(conv, from) ==
    IF rejects(conv, from) THEN Failed
    ELSE [ok |-> TRUE, doc |-> copyFields(from, EmptyDoc, CopiedBy(conv))]

\* a one-key document as encoding/json decodes it
OneKey(f, v) == [p \in {<<f>>} |-> Stored(v)]

\* the documents given to a converter: one field, or one field beside a second
DocsOf(conv) ==
    {OneKey(f, v) : f \in FieldsOf(conv), v \in JSONValues}
    \cup UNION { { [p \in {<<f>>, <<g>>} |-> IF p = <<f>> THEN Stored(v) ELSE w] :
                     g \in CopiedBy(conv) \ {f}, w \in {"0", "str"} } :
                 f \in FieldsOf(conv), v \in JSONValues }

CallConverter ==
    /\ fn = "none"
    /\ \E conv \in Converters : \E from \in DocsOf(conv) :
        /\ fn' = "convertTo"
        /\ fnIn' = [conv |-> conv, from |-> from]
        /\ fnOut' = convertTo(conv, from)
    /\ UNCHANGED <<streamVars, backend, liveVars, genVars>>

\* C11: a rejected field fails the conversion exactly when the document
\* carries a non-zero value for it; the zero values false, 0 and the empty
\* string do not make it fail.
C11_RejectsExactlyNonZero ==
    fn = "convertTo" =>
        (~fnOut.ok <=>
            \E f \in RejectedBy(fnIn.conv) :
                getValueByPath(fnIn.from, <<f>>)
                    \in (NonEmptyValues \cup EmptyCollections \cup {"node"}))

(***************************************************************************)
(* Model names                                                             *)
(***************************************************************************)
\* apiClient.createAPIURL on the path "{model}:<method>": version and resource
createAPIURL(b, suffix) ==
    IF b = "vertex"
    THEN [version |-> "v1beta1",
          resource |-> IF ~HasPrefix(suffix, "projects")
                       THEN <<"projects", Project, "locations", Location>> \o suffix
                       ELSE suffix]
    ELSE [version |-> "v1beta", resource |-> suffix]

FullOf(pub) == <<"projects", Project, "locations", Location,
                 "publishers", pub, "models", "m">>

TModelInputs ==
    { EmptyName, <<"m">>, <<"pub", "m">>, <<"google", "m">>,
      <<"publishers", "pub", "models", "m">>,
      <<"publishers", "google", "models", "m">>,
      FullOf("pub"), FullOf("google"),
      <<"models", "m">>, <<"tunedModels", "x">>,
      <<"a", "b", "c">>, <<"a", "b", "c", "d">>, <<"m", "">> }

CallTModel ==
    /\ fn = "none"
    /\ \E model \in TModelInputs :
        /\ fn' = "tModel"
        /\ fnIn' = [model |-> model]
        /\ fnOut' = [short |-> tModel(backend, model),
                     full |-> tModelFullName(backend, model),
                     url |-> IF tModel(backend, model).ok
                             THEN createAPIURL(backend, tModel(backend, model).name)
                             ELSE createAPIURL(backend, EmptyName)]
    /\ UNCHANGED <<streamVars, backend, liveVars, genVars>>

\* the four spellings of model m of publisher pub
FourSpellings(pub) ==
    { <<"m">>, <<pub, "m">>, <<"publishers", pub, "models", "m">>, FullOf(pub) }

GeminiTable ==
    (fn = "tModel" /\ backend = "mldev") =>
        /\ fnIn.model = <<"m">> =>
                fnOut.full = [ok |-> TRUE, name |-> <<"models", "m">>]
        /\ fnIn.model \in {<<"models", "m">>, <<"tunedModels", "x">>} =>
                fnOut.full = [ok |-> TRUE, name |-> fnIn.model]

EmptyIsError ==
    (fn = "tModel" /\ fnIn.model = EmptyName) => ~fnOut.short.ok /\ ~fnOut.full.ok

\* C12 (as stated): on Vertex "m", "pub/m", "publishers/pub/models/m" and the
\* fully qualified spelling all resolve to projects/p/locations/l/publishers/
\* pub/models/m, as full name and as URL path; on Gemini "m" becomes
\* "models/m" and prefixed names are unchanged; the empty name is an error.
C12_FourSpellingsOneName ==
    /\ (fn = "tModel" /\ backend = "vertex" /\ fnIn.model \in FourSpellings("pub")) =>
            /\ fnOut.full = [ok |-> TRUE, name |-> FullOf("pub")]
            /\ fnOut.url.resource = FullOf("pub")
    /\ GeminiTable
    /\ EmptyIsError

\* C12 (amended): the three spellings that name the publisher resolve to the
\* name under that publisher, the bare "m" resolves to the name under
\* publisher google, so the four coincide only for pub = google; the Gemini
\* rows and the empty-name error are as stated.
C12_NormalizationTable ==
    /\ \A pub \in {"pub", "google"} :
        (fn = "tModel" /\ backend = "vertex") =>
            /\ fnIn.model \in FourSpellings(pub) \ {<<"m">>} =>
                    /\ fnOut.full = [ok |-> TRUE, name |-> FullOf(pub)]
                    /\ fnOut.url.resource = FullOf(pub)
            /\ fnIn.model = <<"m">> =>
                    /\ fnOut.full = [ok |-> TRUE, name |-> FullOf("google")]
                    /\ fnOut.url.resource = FullOf("google")
    /\ GeminiTable
    /\ EmptyIsError

C12_Witness ==
    /\ fn = "tModel" /\ backend = "vertex"
    /\ fnIn.model = <<"pub", "m">>
    /\ fnOut.full.name = FullOf("pub")

KnownPrefix(model) ==
    HasPrefix(model, "projects") \/ HasPrefix(model, "models")
        \/ HasPrefix(model, "publishers")

\* C13: on Vertex a name without a known prefix and with two or more "/"
\* is taken for a bare model id: publishers/google/models/<id>.
C13_TwoSlashesIsBareId ==
    (fn = "tModel" /\ backend = "vertex" /\ ~KnownPrefix(fnIn.model)
        /\ Len(fnIn.model) >= 3) =>
            fnOut.short = [ok |-> TRUE,
                           name |-> <<"publishers", "google", "models">> \o fnIn.model]

(***************************************************************************)
(* setValueByPath on small documents                                       *)
(***************************************************************************)
\* the paths over Keys, one or two keys long
Paths == {<<k>> : k \in Keys} \cup {<<k, j>> : k \in Keys, j \in Keys}

\* what a document holds under one top-level key: nothing, a scalar, or a
\* nested mapping with some of the keys
Subtrees ==
    {[kind |-> k, keys |-> {}] : k \in {"absent", "leaf"}}
    \cup {[kind |-> "node", keys |-> c] : c \in SUBSET Keys}

DocOf(t) ==
    LET top == {<<k>> : k \in {j \in Keys : t[j].kind # "absent"}}
        sub == UNION { {<<k, j>> : j \in t[k].keys} : k \in Keys }
    IN  [p \in top \cup sub |->
            IF Len(p) = 2 \/ t[p[1]].kind = "leaf" THEN "str" ELSE "node"]

Docs == {DocOf(t) : t \in [Keys -> Subtrees]}

CallSetValueByPath ==
    /\ fn = "none"
    /\ \E data \in Docs, keys \in Paths, value \in Values :
        /\ fn' = "setValueByPath"
        /\ fnIn' = [data |-> data, keys |-> keys, value |-> value]
        /\ fnOut' = setValueByPath(data, keys, value)
    /\ UNCHANGED <<streamVars, backend, liveVars, genVars>>

\* the key at the path holds the value and nothing lies below it
HoldsAt(doc, keys, v) ==
    /\ keys \in DOMAIN doc /\ doc[keys] = v
    /\ \A q \in DOMAIN doc : ~Below(keys, q)

\* C14 (as stated): a zero or empty value (nil, "", 0, false, empty
\* sequence, empty mapping) never creates the key at the path; a non-zero
\* value always creates it, replacing what was stored there.
C14_EmptyNeverStored ==
    fn = "setValueByPath" =>
        /\ fnIn.value \in ({Nil} \cup ZeroValues \cup EmptyCollections) =>
                (fnIn.keys \notin DOMAIN fnIn.data => fnIn.keys \notin DOMAIN fnOut)
        /\ fnIn.value \in NonEmptyValues => HoldsAt(fnOut, fnIn.keys, fnIn.value)

\* C14 (amended): nil and the values reflect reports as zero ("", 0, false,
\* a nil sequence, a nil mapping) never create the key; every other value,
\* a non-nil empty sequence or mapping included, is stored at the path and
\* replaces what was stored there.
C14_ZeroNeverStoredEmptyStored ==
    fn = "setValueByPath" =>
        /\ fnIn.value \in ({Nil} \cup ZeroValues) =>
                (fnIn.keys \notin DOMAIN fnIn.data => fnIn.keys \notin DOMAIN fnOut)
        /\ fnIn.value \in (NonEmptyValues \cup EmptyCollections) =>
                HoldsAt(fnOut, fnIn.keys, Stored(fnIn.value))

C14_Witness ==
    /\ fn = "setValueByPath"
    /\ fnIn.value = "emptyMap"
    /\ fnIn.keys = <<"a", "b">>
    /\ <<"a">> \in DOMAIN fnIn.data /\ fnIn.data[<<"a">>] = "str"
    /\ HoldsAt(fnOut, <<"a", "b">>, "node")

\* C30: a skipped write changes nothing: setValueByPath with a zero value
\* (nil, "", 0, false) leaves the whole document as it was, creating no
\* intermediate mapping and replacing no value stored on the path.
C30_SkippedWriteChangesNothing ==
    (fn = "setValueByPath" /\ fnIn.value \in {Nil, "emptyString", "0", "false"}) =>
        fnOut = fnIn.data

(***************************************************************************)
(* generateContentParametersToMldev / generateContentParametersToVertex    *)
(* on documents: a config document gives each field it carries a value of  *)
(* the field's JSON type.                                                  *)
(***************************************************************************)
\* written with setValueByPath(parentObject, ...)
ParentFields == {"systemInstruction", "safetySettings", "tools", "toolConfig",
                 "cachedContent"}

\* read by the config converters of both backends and refused by neither
CommonConfigFields ==
    {"temperature", "topP", "topK", "candidateCount", "maxOutputTokens",
     "stopSequences", "presencePenalty", "frequencyPenalty", "seed",
     "responseMimeType", "responseSchema", "responseModalities", "speechConfig"}

ConfigFields ==
    ParentFields \cup CommonConfigFields \cup RejectedBy("generateContentConfigToMldev")

\* fields whose value is a JSON object, converted by an entity converter
ObjectFields == {"systemInstruction", "toolConfig", "responseSchema",
                 "speechConfig", "routingConfig"}

\* fields whose value is a list converted with applyConverterToSlice
ConvertedListFields == {"safetySettings", "tools"}

ListFields == {"stopSequences", "responseModalities"}

ValuesOfField(f) ==
    IF f \in ObjectFields THEN {"node", "map"}
    ELSE IF f \in ConvertedListFields \cup ListFields THEN {"emptySlice", "slice"}
    ELSE IF f \in {"cachedContent", "responseMimeType", "mediaResolution"}
    THEN {"emptyString", "str"}
    ELSE IF f = "responseLogprobs" THEN {"false", "true"}
    ELSE {"0", "1"}

\* the value a field's transformer and converter make of the field's value
convertedValue(f, v) ==
    IF f \in ObjectFields THEN "emptyMap"          \* toObject = make(map[string]any)
    ELSE IF f \in ConvertedListFields
    THEN (IF v = "emptySlice" THEN "nilSlice" ELSE "slice")  \* var outputs []map[string]any
    ELSE IF f = "cachedContent" THEN "str"         \* tResourceName adds its prefix
    ELSE v

\* the variant that writes every field into toObject
placeOf_AlwaysToObject(f) == "to"

\* the document a config field is written into
placeOf(f) == IF f \in ParentFields THEN "parent" ELSE "to"

RECURSIVE configFields(_, _, _, _)
configFields(from, to, parent, fields) ==
    IF fields = {} THEN [ok |-> TRUE, to |-> to, parent |-> parent]
    ELSE LET f == CHOOSE g \in fields : TRUE
             v == convertedValue(f, from[f])
         IN  IF placeOf(f) = "parent"
             THEN configFields(from, to, setValueByPath(parent, <<f>>, v), fields \ {f})
             ELSE configFields(from, setValueByPath(to, <<f>>, v), parent, fields \ {f})

generateContentConfigTo(b, from, parent) ==
    IF b = "mldev" /\ DOMAIN from \cap RejectedBy("generateContentConfigToMldev") # {}
    THEN [ok |-> FALSE, to |-> EmptyDoc, parent |-> parent]
    ELSE configFields(from, EmptyDoc, parent, DOMAIN from)

\* from: the model name, the contents and, when hasConfig, the config document
generateContentParametersTo(b, from) ==
    LET m == tModel(b, from.model)
        t1 == IF m.ok THEN setValueByPath(EmptyDoc, <<"_url", "model">>, "str")
              ELSE EmptyDoc
        t2 == setValueByPath(t1, <<"contents">>, "slice")
        c == generateContentConfigTo(b, from.config, t2)
    IN  IF ~m.ok THEN Failed
        ELSE IF ~from.hasConfig THEN [ok |-> TRUE, doc |-> t2]
        ELSE IF ~c.ok THEN Failed
        ELSE [ok |-> TRUE, doc |-> setDocByPath(c.parent, <<"generationConfig">>, c.to)]

\* config documents that carry one field or two
ConfigDocs ==
    UNION { { [h \in {f, g} |-> IF h = f THEN v ELSE w] :
                v \in ValuesOfField(f), w \in ValuesOfField(g) } :
            f \in ConfigFields, g \in ConfigFields }

CallGenerateContentParameters ==
    /\ fn = "none"
    /\ \E model \in {EmptyName, <<"m">>}, hasConfig \in BOOLEAN, config \in ConfigDocs :
        /\ hasConfig \/ config = [h \in {"seed"} |-> "1"]
        /\ fn' = "generateContentParameters"
        /\ fnIn' = [model |-> model, hasConfig |-> hasConfig, config |-> config]
        /\ fnOut' = generateContentParametersTo(backend, fnIn')
    /\ UNCHANGED <<streamVars, backend, liveVars, genVars>>

\* C15: in the wire request systemInstruction, safetySettings, tools,
\* toolConfig and cachedContent are at the top level beside contents and
\* never inside generationConfig; every other accepted config field is
\* inside generationConfig and never at the top level.
C15_ConfigFieldPlacement ==
    (fn = "generateContentParameters" /\ fnOut.ok /\ fnIn.hasConfig) =>
        \A f \in DOMAIN fnIn.config :
            LET top == <<f>> \in DOMAIN fnOut.doc
                inner == <<"generationConfig", f>> \in DOMAIN fnOut.doc
                carried == fnIn.config[f] \in {"true", "1", "str", "slice", "map"}
            IN  /\ f \in ParentFields => ~inner /\ (carried => top)
                /\ f \notin ParentFields => ~top /\ (carried => inner)

C15_Witness ==
    /\ fn = "generateContentParameters" /\ fnOut.ok /\ fnIn.hasConfig
    /\ DOMAIN fnIn.config = {"tools", "seed"}
    /\ <<"tools">> \in DOMAIN fnOut.doc
    /\ <<"generationConfig", "seed">> \in DOMAIN fnOut.doc
    /\ <<"contents">> \in DOMAIN fnOut.doc

(***************************************************************************)
(* HTTP responses: deserializeUnaryResponse and newAPIError                *)
(***************************************************************************)
StatusCodes == {199, 200, 299, 300, 399, 400, 404, 499, 500, 503}

\* resp.Status, the status line text of a status code
StatusLine(code) == <<code, "status line">>

\* what reading and decoding a response body gives:
\*   readError  io.ReadAll fails          empty    no bytes
\*   notJSON    bytes that do not parse   noError  a JSON object without "error"
\*   nullError  {"error": null}           error    {"error": {code, message, ...}}
BodyKinds == {"readError", "empty", "notJSON", "noError", "nullError", "error"}

\* the error objects a body carries
ErrorInfos ==
    [Code : {400, 503}, Message : {"msg"}, Status : {"INVALID_ARGUMENT"},
     Details : {<<>>, <<"detail">>}]

NoInfo == [Code |-> 0, Message |-> "", Status |-> "", Details |-> <<>>]

Bodies ==
    {[kind |-> k, info |-> NoInfo] : k \in BodyKinds \ {"error"}}
    \cup {[kind |-> "error", info |-> i] : i \in ErrorInfos}

Responses == [StatusCode : StatusCodes, Body : Bodies]

httpStatusOk(resp) == resp.StatusCode >= 200 /\ resp.StatusCode < 300

\* ClientError for 400..499, ServerError otherwise
errorKind(resp) ==
    IF resp.StatusCode >= 400 /\ resp.StatusCode < 500
    THEN "ClientError" ELSE "ServerError"

PlainError == [kind |-> "error", info |-> NoInfo]

newAPIError(resp) ==
    CASE resp.Body.kind = "readError" -> PlainError
      [] resp.Body.kind = "empty" ->
            [kind |-> errorKind(resp),
             info |-> [Code |-> resp.StatusCode, Message |-> "",
                       Status |-> StatusLine(resp.StatusCode), Details |-> <<>>]]
      [] resp.Body.kind = "notJSON" -> PlainError
      \* *respWithError.ErrorInfo with ErrorInfo == nil
      [] resp.Body.kind \in {"noError", "nullError"} ->
            [kind |-> "panic", info |-> NoInfo]
      [] resp.Body.kind = "error" ->
            [kind |-> errorKind(resp), info |-> resp.Body.info]

deserializeUnaryResponse(resp) ==
    IF ~httpStatusOk(resp) THEN newAPIError(resp)
    ELSE IF resp.Body.kind \in {"readError", "empty", "notJSON"} THEN PlainError
    ELSE [kind |-> "ok", info |-> NoInfo]

CallDeserializeUnaryResponse ==
    /\ fn = "none"
    /\ \E resp \in Responses :
        /\ fn' = "deserializeUnaryResponse"
        /\ fnIn' = resp
        /\ fnOut' = deserializeUnaryResponse(resp)
    /\ UNCHANGED <<streamVars, backend, liveVars, genVars>>

\* C16: every response with a non-2xx status fails with a ClientError for
\* 400..499 and with a ServerError for any other status; the error carries
\* code, message, status and details of the body's error object, or the
\* HTTP status code and status line when the body is empty.
C16_Non2xxIsAPIError ==
    (fn = "deserializeUnaryResponse" /\ ~httpStatusOk(fnIn)
        /\ fnIn.Body.kind # "readError") =>
            /\ fnOut.kind = IF fnIn.StatusCode \in 400..499
                            THEN "ClientError" ELSE "ServerError"
            /\ fnIn.Body.kind = "error" => fnOut.info = fnIn.Body.info
            /\ fnIn.Body.kind = "empty" =>
                    /\ fnOut.info.Code = fnIn.StatusCode
                    /\ fnOut.info.Status = StatusLine(fnIn.StatusCode)

\* C27: for every non-2xx response whose body is non-empty valid JSON, the
\* bodies without an error member included, newAPIError returns a
\* ClientError or a ServerError chosen by the status; it never crashes on
\* a nil error object.
C27_ErrorWithoutErrorMember ==
    (fn = "deserializeUnaryResponse" /\ ~httpStatusOk(fnIn)
        /\ fnIn.Body.kind \in {"noError", "nullError", "error"}) =>
            fnOut.kind = errorKind(fnIn)

(***************************************************************************)
(* applyConverterToSlice and the Content converters                        *)
(***************************************************************************)
MaxParts == 2

\* the variant that builds its result back to front
RECURSIVE applyLoop_Reversed(_, _, _, _)
applyLoop_Reversed(inputs, conv, i, outputs) ==
    IF i > Len(inputs)
    THEN [ok |-> TRUE, outputs |-> outputs, isNil |-> outputs = <<>>,
          calls |-> Len(inputs)]
    ELSE LET o == convertTo(conv, inputs[i])
         IN  IF ~o.ok
             THEN [ok |-> FALSE, outputs |-> <<>>, isNil |-> TRUE, calls |-> i]
             ELSE applyLoop_Reversed(inputs, conv, i + 1, <<o.doc>> \o outputs)

\* `for _, object := range inputs`: outputs so far, and the converter calls made
RECURSIVE applyLoop(_, _, _, _)
applyLoop(inputs, conv, i, outputs) ==
    IF i > Len(inputs)
    THEN [ok |-> TRUE, outputs |-> outputs, isNil |-> outputs = <<>>,
          calls |-> Len(inputs)]
    ELSE LET o == convertTo(conv, inputs[i])
         IN  IF ~o.ok
             THEN [ok |-> FALSE, outputs |-> <<>>, isNil |-> TRUE, calls |-> i]
             ELSE applyLoop(inputs, conv, i + 1, Append(outputs, o.doc))

\* `var outputs []map[string]any` stays nil when nothing is appended
applyConverterToSlice(inputs, conv) == applyLoop(inputs, conv, 1, <<>>)

\* Part documents: one field with a zero or a non-zero value, or no field
PartDocs ==
    {EmptyDoc}
    \cup {OneKey("text", v) : v \in {"emptyString", "str"}}
    \cup {OneKey("thought", v) : v \in {"false", "true"}}
    \cup {OneKey("videoMetadata", v) : v \in {"emptyMap"}}

PartLists == UNION { [1..n -> PartDocs] : n \in 0..MaxParts }

CallApplyConverterToSlice ==
    /\ fn = "none"
    /\ \E conv \in {"partToMldev", "partToVertex"}, inputs \in PartLists :
        /\ fn' = "applyConverterToSlice"
        /\ fnIn' = [conv |-> conv, inputs |-> inputs]
        /\ fnOut' = applyConverterToSlice(inputs, conv)
    /\ UNCHANGED <<streamVars, backend, liveVars, genVars>>

\* C18: the converter is applied in sequence order, the result has the
\* length of the input and result[i] = converter(input[i]); when the
\* converter fails on element i the elements after i are not converted and
\* the call returns the error with a nil collection.
C18_SliceConvertedInOrder ==
    fn = "applyConverterToSlice" =>
        LET failing == {i \in DOMAIN fnIn.inputs :
                            ~convertTo(fnIn.conv, fnIn.inputs[i]).ok}
        IN  IF failing = {}
            THEN /\ fnOut.ok
                 /\ Len(fnOut.outputs) = Len(fnIn.inputs)
                 /\ \A i \in DOMAIN fnIn.inputs :
                        fnOut.outputs[i] = convertTo(fnIn.conv, fnIn.inputs[i]).doc
            ELSE /\ ~fnOut.ok
                 /\ fnOut.isNil /\ fnOut.outputs = <<>>
                 /\ fnOut.calls = Min(failing)

C18_Witness ==
    /\ fn = "applyConverterToSlice" /\ fnOut.ok
    /\ Len(fnIn.inputs) = 2
    /\ fnOut.outputs[1] # fnOut.outputs[2]

\* A Content document: its role (Nil when the key is absent) and its parts
\* (hasParts tells whether the key is there)
Content(role, hasParts, parts) ==
    [role |-> role, hasParts |-> hasParts, parts |-> parts]

Contents ==
    {Content(r, FALSE, <<>>) : r \in {Nil, "emptyString", "str"}}
    \cup {Content(r, TRUE, ps) : r \in {Nil, "emptyString", "str"}, ps \in PartLists}

\* a value as setValueByPath leaves it under a key of a fresh document
Kept(v) == getValueByPath(setValueByPath(EmptyDoc, <<"k">>, v), <<"k">>)

\* the variant that keeps the key of an empty list of parts
contentWith_KeepsEmptyParts(x, partConv) ==
    LET ps == applyConverterToSlice(x.parts, partConv)
    IN  IF x.hasParts /\ ~ps.ok THEN [ok |-> FALSE, doc |-> Content(Nil, FALSE, <<>>)]
        ELSE [ok |-> TRUE,
              doc |-> Content(Kept(x.role), x.hasParts,
                              IF x.hasParts THEN ps.outputs ELSE <<>>)]

\* contentToMldev, contentToVertex, contentFromMldev, contentFromVertex:
\* the four differ in the part converter only
contentWith(x, partConv) ==
    LET ps == applyConverterToSlice(x.parts, partConv)
        \* setValueByPath(toObject, "parts", fromParts) skips the nil slice
        stored == x.hasParts /\ ~ps.isNil
    IN  IF x.hasParts /\ ~ps.ok THEN [ok |-> FALSE, doc |-> Content(Nil, FALSE, <<>>)]
        ELSE [ok |-> TRUE,
              doc |-> Content(Kept(x.role), stored,
                              IF stored THEN ps.outputs ELSE <<>>)]

contentTo(b, x) ==
    contentWith(x, IF b = "mldev" THEN "partToMldev" ELSE "partToVertex")

contentFrom(b, x) ==
    contentWith(x, IF b = "mldev" THEN "partFromMldev" ELSE "partFromVertex")

CallContentRoundTrip ==
    /\ fn = "none"
    /\ \E x \in Contents :
        /\ fn' = "contentRoundTrip"
        /\ fnIn' = x
        /\ fnOut' = LET w == contentTo(backend, x)
                    IN  IF w.ok THEN contentFrom(backend, w.doc) ELSE w
    /\ UNCHANGED <<streamVars, backend, liveVars, genVars>>

\* the part fields both directions of a backend's converters copy
CommonPartFields(b) ==
    IF b = "mldev" THEN CopiedBy("partToMldev") \cap CopiedBy("partFromMldev")
    ELSE CopiedBy("partToVertex") \cap CopiedBy("partFromVertex")

OnCommonSubset(b, x) ==
    \A i \in DOMAIN x.parts : \A p \in DOMAIN x.parts[i] : p[1] \in CommonPartFields(b)

\* no key of x holds a zero or empty value
NoZeroValue(x) ==
    /\ x.role \notin ZeroValues
    /\ x.hasParts => x.parts # <<>>
    /\ \A i \in DOMAIN x.parts : \A p \in DOMAIN x.parts[i] : ~IsZero(x.parts[i][p])

\* x without the keys that hold a zero or empty value
WithoutZeroKeys(x) ==
    Content(IF x.role \in ZeroValues THEN Nil ELSE x.role,
            x.hasParts /\ x.parts # <<>>,
            [i \in DOMAIN x.parts |->
                [p \in {q \in DOMAIN x.parts[i] : ~IsZero(x.parts[i][q])} |->
                    x.parts[i][p]]])

Indexes == {"0", "1"}

IsKey(k) == k \notin Indexes

\* the entity a path lies in: the path without its list indexes
Position(p) == SelectSeq(p, IsKey)

Root == << >>

\* the entities a from-wire converter rebuilds key by key
ConverterLevels ==
    {Root, <<"candidates">>, <<"candidates", "content">>,
     <<"candidates", "content", "parts">>}

\* the keys the converter of an entity reads
ConverterKeys(b, pos) ==
    CASE pos = Root -> {"candidates", "modelVersion", "promptFeedback", "usageMetadata"}
      [] pos = <<"candidates">> ->
            {"content", "citationMetadata", "tokenCount", "avgLogprobs",
             "finishReason", "groundingMetadata", "index", "logprobsResult",
             "safetyRatings"}
      [] pos = <<"candidates", "content">> -> {"parts", "role"}
      [] pos = <<"candidates", "content", "parts">> ->
            CopiedBy(IF b = "mldev" THEN "partFromMldev" ELSE "partFromVertex")
      [] OTHER -> {}

\* the keys of the typed structures (json tags of GenerateContentResponse
\* and the types below it)
TypedKeys(pos) ==
    CASE pos \in ConverterLevels ->
            ConverterKeys("mldev", pos) \cup ConverterKeys("vertex", pos)
      [] pos = <<"usageMetadata">> -> {"totalTokenCount", "promptTokenCount"}
      [] pos = <<"promptFeedback">> -> {"blockReason"}
      [] OTHER -> {}

ParentOf(p, i) == Position(SubSeq(p, 1, i - 1))

\* key i of path p is one the converter of its entity copies
CopiedKey(b, d, p, i) ==
    \/ ~IsKey(p[i])
    \/ ParentOf(p, i) \notin ConverterLevels
    \/ /\ p[i] \in ConverterKeys(b, ParentOf(p, i))
       /\ ~IsZero(d[SubSeq(p, 1, i)])

\* generateContentResponseFromMldev / generateContentResponseFromVertex
fromConverter(b, d) ==
    [p \in {q \in DOMAIN d : \A i \in 1..Len(q) : CopiedKey(b, d, q, i)} |-> d[p]]

KnownPath(p) ==
    \A i \in 1..Len(p) : ~IsKey(p[i]) \/ p[i] \in TypedKeys(ParentOf(p, i))

\* the variant that decodes with DisallowUnknownFields
mapToStruct_Strict(d) ==
    [ok |-> \A p \in DOMAIN d : KnownPath(p),
     typed |-> [p \in {q \in DOMAIN d : KnownPath(q)} |-> d[p]]]

\* json.Unmarshal into the typed response: keys without a field are skipped
mapToStruct(d) ==
    [ok |-> TRUE,
     typed |-> [p \in {q \in DOMAIN d : KnownPath(q)} |-> d[p]]]

\* a response of one candidate with two parts
FullResponse ==
    LET c == <<"candidates", "0">>
        ps == c \o <<"content", "parts">>
    IN  ( <<"candidates">> :> "slice" ) @@ ( c :> "node" )
        @@ ( (c \o <<"content">>) :> "node" ) @@ ( (c \o <<"finishReason">>) :> "str" )
        @@ ( (c \o <<"content", "role">>) :> "str" ) @@ ( ps :> "slice" )
        @@ ( (ps \o <<"0">>) :> "node" ) @@ ( (ps \o <<"0", "text">>) :> "str" )
        @@ ( (ps \o <<"1">>) :> "node" ) @@ ( (ps \o <<"1", "text">>) :> "emptyString" )
        @@ ( <<"modelVersion">> :> "str" ) @@ ( <<"usageMetadata">> :> "node" )
        @@ ( <<"usageMetadata", "totalTokenCount">> :> "1" )

\* the response without what lies under some of its top-level keys
BaseResponses ==
    { [p \in {q \in DOMAIN FullResponse : q[1] \in top} |-> FullResponse[p]] :
        top \in SUBSET {"candidates", "modelVersion", "usageMetadata"} }

MapLevels(d) == {Root} \cup {p \in DOMAIN d : d[p] = "node"}

\* the keys injectUnknownFields adds to a map, and their values
UnknownKeys ==
    ( "unknownFieldString" :> "str" ) @@ ( "unknownFieldNumber" :> "0" )
    @@ ( "unknownFieldMap" :> "node" ) @@ ( "unknownFieldArray" :> "slice" )

inject(d, levels, keys) ==
    LET added == {l \o <<k>> : l \in levels, k \in keys}
        inner == {l \o <<"unknownFieldMap", "unknownFieldString">> :
                    l \in IF "unknownFieldMap" \in keys THEN levels ELSE {}}
    IN  [p \in DOMAIN d \cup added \cup inner |->
            IF p \in DOMAIN d THEN d[p]
            ELSE IF p \in inner THEN "str"
            ELSE UnknownKeys[p[Len(p)]]]

CallResponseFromWire ==
    /\ fn = "none"
    /\ \E base \in BaseResponses :
       \E levels \in SUBSET MapLevels(base), keys \in SUBSET DOMAIN UnknownKeys :
        /\ fn' = "responseFromWire"
        /\ fnIn' = [base |-> base, doc |-> inject(base, levels, keys),
                    levels |-> levels, keys |-> keys]
        /\ fnOut' = mapToStruct(fromConverter(backend, fnIn'.doc))
    /\ UNCHANGED <<streamVars, backend, liveVars, genVars>>

\* C19: keys the typed schema does not know, at any level of a wire
\* response, never make the conversion or the typed materialization fail,
\* and the typed result is that of the same response without those keys.
C19_UnknownKeysIgnored ==
    fn = "responseFromWire" =>
        /\ fnOut.ok
        /\ fnOut.typed = mapToStruct(fromConverter(backend, fnIn.base)).typed

C19_Witness ==
    /\ fn = "responseFromWire" /\ fnOut.ok
    /\ fnIn.base = FullResponse
    /\ fnIn.levels = MapLevels(FullResponse)
    /\ fnIn.keys = DOMAIN UnknownKeys
    /\ <<"usageMetadata", "totalTokenCount">> \in DOMAIN fnOut.typed
    /\ <<"candidates", "0", "content", "parts", "0", "text">> \in DOMAIN fnOut.typed

(***************************************************************************)
(* The type assertions of the from-wire converters.  Every nested entity   *)
(* and every list is asserted with the one-value form x.(T), which panics  *)
(* when x is of another type; nothing in the package recovers.            *)
(***************************************************************************)
\* the type the converters assert of the value at path p: "slice" for
\* fromCandidates.([]any) (models.go:1499) and fromParts.([]any)
\* (models.go:1334), "node" for object.(map[string]any)
\* (live_test.go:301) and fromContent.(map[string]any) (models.go:1377)
ShapeAt(p) ==
    LET pos == Position(p)
        last == p[Len(p)]
    IN  IF pos = <<"candidates">>
        THEN IF IsKey(last) THEN "slice" ELSE "node"
        ELSE IF pos = <<"candidates", "content">> /\ IsKey(last) THEN "node"
        ELSE IF pos = <<"candidates", "content", "parts">>
        THEN IF IsKey(last) THEN "slice" ELSE "node"
        ELSE "any"

HasShape(v, shape) ==
    CASE shape = "slice" -> v \in {"slice", "emptySlice"}
      [] shape = "node" -> v = "node"
      [] OTHER -> TRUE

\* some assertion of the conversion of d fails: a key is asserted only when
\* its value is not nil, a list element always
assertionFails(d) ==
    \E p \in DOMAIN d :
        /\ ~HasShape(d[p], ShapeAt(p))
        /\ d[p] # Nil \/ ~IsKey(p[Len(p)])

\* generateContentResponseFromMldev / ...FromVertex on a response with the
\* value v at one of the asserted paths
CallResponseWrongShape ==
    /\ fn = "none"
    /\ \E p \in {q \in DOMAIN FullResponse : ShapeAt(q) # "any"}, v \in JSONValues :
        LET d == Assign(FullResponse, p, Stored(v))
        IN  /\ fn' = "generateContentResponseFrom"
            /\ fnIn' = [doc |-> d, path |-> p, value |-> Stored(v)]
            /\ fnOut' = IF assertionFails(d)
                        THEN [kind |-> "panic", doc |-> EmptyDoc]
                        ELSE [kind |-> "ok", doc |-> fromConverter(backend, d)]
    /\ UNCHANGED <<streamVars, backend, liveVars, genVars>>

\* C22: a value of the wrong shape for a nested-entity or a sequence field
\* (candidates that is not a sequence, an element that is not a mapping)
\* makes the conversion return an error; it never panics.
C22_WrongShapeIsAnError ==
    (fn = "generateContentResponseFrom"
        /\ fnIn.value # Nil
        /\ ~HasShape(fnIn.value, ShapeAt(fnIn.path))) =>
            fnOut.kind = "error"

(***************************************************************************)
(* NewClient, client.go:92-184                                             *)
(***************************************************************************)
\* strings.ToLower on the values of GOOGLE_GENAI_USE_VERTEXAI drawn below
ToLower(v) == IF v = "TRUE" THEN "true" ELSE v

\* the variant that leaves an unspecified backend as it is
resolveBackend_LeavesUnspecified(cc, env) == cc.Backend

\* client.go:105-116; an unset variable is "unset"
resolveBackend(cc, env) ==
    IF cc.Backend # "BackendUnspecified" THEN cc.Backend
    ELSE IF env.USE_VERTEXAI # "unset"
         THEN IF ToLower(env.USE_VERTEXAI) \in {"1", "true"}
              THEN "BackendVertexAI" ELSE "BackendGeminiAPI"
         ELSE "BackendGeminiAPI"

\* os.Getenv: the empty string for an unset variable
Getenv(v) == IF v = "unset" THEN "" ELSE v

\* client.go:118-132: the fields the environment fills
fillFromEnv(cc, env) ==
    LET b == resolveBackend(cc, env) IN
    [Backend  |-> b,
     APIKey   |-> IF cc.APIKey = "" /\ b = "BackendGeminiAPI"
                  THEN Getenv(env.API_KEY) ELSE cc.APIKey,
     Project  |-> IF cc.Project = "" THEN Getenv(env.PROJECT) ELSE cc.Project,
     Location |-> IF cc.Location # "" THEN cc.Location
                  ELSE IF env.LOCATION # "unset" THEN env.LOCATION
                  ELSE IF env.REGION # "unset" THEN env.REGION
                  ELSE ""]

\* NewClient: the error it returns ("none" for a client) and the
\* configuration of the client; creds tells whether default credentials
\* are found
NewClient(cc, env, creds) ==
    LET c == fillFromEnv(cc, env)
        NoClient == [Backend |-> "none", APIKey |-> "", Project |-> "", Location |-> ""]
    IN
    IF cc.Project # "" /\ cc.APIKey # "" THEN [err |-> "exclusive", client |-> NoClient]
    ELSE IF cc.Location # "" /\ cc.APIKey # "" THEN [err |-> "exclusive", client |-> NoClient]
    ELSE IF c.Backend = "BackendVertexAI" /\ c.Project = ""
         THEN [err |-> "project", client |-> NoClient]
    ELSE IF c.Backend = "BackendVertexAI" /\ c.Location = ""
         THEN [err |-> "location", client |-> NoClient]
    ELSE IF c.Backend # "BackendVertexAI" /\ c.APIKey = ""
         THEN [err |-> "apiKey", client |-> NoClient]
    ELSE IF c.Backend = "BackendVertexAI" /\ ~creds
         THEN [err |-> "credentials", client |-> NoClient]
    ELSE [err |-> "none", client |-> c]

ClientConfigs ==
    [Backend  : {"BackendUnspecified", "BackendGeminiAPI", "BackendVertexAI"},
     APIKey   : {"", "key"},
     Project  : {"", "proj"},
     Location : {"", "loc"}]

Environments ==
    [USE_VERTEXAI : {"unset", "1", "TRUE", "0"},
     API_KEY      : {"unset", "envKey"},
     PROJECT      : {"unset", "envProj"},
     LOCATION     : {"unset", "", "envLoc"},
     REGION       : {"unset", "envRegion"}]

CallNewClient ==
    /\ fn = "none"
    /\ \E cc \in ClientConfigs, env \in Environments, creds \in BOOLEAN :
        /\ fn' = "NewClient"
        /\ fnIn' = [cc |-> cc, env |-> env, creds |-> creds]
        /\ fnOut' = NewClient(cc, env, creds)
    /\ UNCHANGED <<streamVars, backend, liveVars, genVars>>

\* C24: a client NewClient returns without error has a resolved backend,
\* never BackendUnspecified; on Vertex AI its project and location are
\* non-empty, on the Gemini API its API key is non-empty; and NewClient
\* returns an error when the configuration sets an API key together with a
\* project or a location.
C24_ClientIsResolved ==
    fn = "NewClient" =>
        /\ fnOut.err = "none" =>
            /\ fnOut.client.Backend \in {"BackendGeminiAPI", "BackendVertexAI"}
            /\ fnOut.client.Backend = "BackendVertexAI" =>
                    (fnOut.client.Project # "" /\ fnOut.client.Location # "")
            /\ fnOut.client.Backend = "BackendGeminiAPI" => fnOut.client.APIKey # ""
        /\ (fnIn.cc.APIKey # "" /\ (fnIn.cc.Project # "" \/ fnIn.cc.Location # ""))
                => fnOut.err # "none"

C24_Witness ==
    /\ fn = "NewClient" /\ fnOut.err = "none"
    /\ fnIn.cc.Backend = "BackendUnspecified"
    /\ fnIn.env.USE_VERTEXAI = "TRUE"
    /\ fnOut.client.Backend = "BackendVertexAI"
    /\ fnOut.client.Project = "envProj" /\ fnOut.client.Location = "envRegion"

(***************************************************************************)
(* liveConnectConfigToMldev / liveConnectConfigToVertex, live.go:194-274.  *)
(* A map stored by setValueByPath is the map itself, not a copy: a later   *)
(* write below it writes the map the input document still holds.          *)
(***************************************************************************)
\* the mapping stored in doc at path p, as a document of its own
Sub(doc, p) ==
    [r \in {SubSeq(q, Len(p) + 1, Len(q)) : q \in {x \in DOMAIN doc : Below(p, x)}} |->
        doc[p \o r]]

\* setValueByPath(data, keys, getValueByPath(from, <<k>>))
putField(data, keys, from, k) ==
    LET v == getValueByPath(from, <<k>>)
    IN  IF v = "node" THEN setDocByPath(data, keys, Sub(from, <<k>>))
        ELSE setValueByPath(data, keys, v)

\* one of the writes at live.go:202-210 (243-251): st is the pair of the
\* input document and the parent object so far
writeUnderGenerationConfig(st, k) ==
    LET shared == getValueByPath(st.from, <<"generationConfig">>) = "node"
    IN  [from   |-> IF shared
                    THEN putField(st.from, <<"generationConfig", k>>, st.from, k)
                    ELSE st.from,
         parent |-> putField(st.parent, <<"setup", "generationConfig", k>>, st.from, k)]

\* lines 197-210 (238-251) of the two converters, which are the same
liveConnectConfigTo(from, parent) ==
    LET s0 == [from |-> from,
               parent |-> putField(parent, <<"setup", "generationConfig">>, from,
                                   "generationConfig")]
        s1 == writeUnderGenerationConfig(s0, "responseModalities")
    IN  writeUnderGenerationConfig(s1, "speechConfig")

\* the config documents deepMarshal produces for the three fields
GenerationConfigDocs ==
    { EmptyDoc,
      (<<"generationConfig">> :> "node"),
      (<<"generationConfig">> :> "node")
          @@ (<<"generationConfig", "temperature">> :> "1"),
      (<<"generationConfig">> :> "node")
          @@ (<<"generationConfig", "responseModalities">> :> "slice") }

ResponseModalitiesDocs ==
    { EmptyDoc, (<<"responseModalities">> :> "slice"),
      (<<"responseModalities">> :> "emptySlice") }

SpeechConfigDocs ==
    { EmptyDoc,
      (<<"speechConfig">> :> "node")
          @@ (<<"speechConfig", "voiceConfig">> :> "str") }

LiveConfigDocs ==
    { g @@ r @@ c : g \in GenerationConfigDocs, r \in ResponseModalitiesDocs,
                    c \in SpeechConfigDocs }

\* the parent object liveConnectParametersTo... passes: its toObject
ParentObjects ==
    { EmptyDoc, (<<"setup">> :> "node") @@ (<<"setup", "model">> :> "str") }

CallLiveConnectConfig ==
    /\ fn = "none"
    /\ \E from \in LiveConfigDocs, parent \in ParentObjects :
        /\ fn' = "liveConnectConfigTo"
        /\ fnIn' = [from |-> from, parent |-> parent]
        /\ fnOut' = liveConnectConfigTo(from, parent)
    /\ UNCHANGED <<streamVars, backend, liveVars, genVars>>

\* C29: no converter modifies its input document, liveConnectConfigToMldev
\* and liveConnectConfigToVertex with generationConfig and
\* responseModalities or speechConfig both present included.
C29_InputDocumentUnchanged ==
    fn = "liveConnectConfigTo" => fnOut.from = fnIn.from

InitCall ==
    /\ backend \in Backends
    /\ StreamIdle
    /\ LiveIdle
    /\ GenIdle
    /\ CallIdle

NextCall ==
    \/ CallConverter
    \/ CallTModel
    \/ CallSetValueByPath
    \/ CallGenerateContentParameters
    \/ CallDeserializeUnaryResponse
    \/ CallResponseWrongShape
    \/ CallNewClient
    \/ CallLiveConnectConfig
    \/ CallApplyConverterToSlice
    \/ CallContentRoundTrip
    \/ CallResponseFromWire

SpecCall == InitCall /\ [][NextCall]_vars

Init == InitStream \/ InitLive \/ InitGen \/ InitCall
Next == NextStream \/ NextLive \/ NextGen \/ NextCall
Spec == Init /\ [][Next]_vars
====
